---- MODULE Spec2Model ----
(***************************************************************************)
(* Parking-finder client (src/unnamed/part_000, src/app.js) and its        *)
(* companion HTTP service (src/.idea/backend/server.js).                   *)
(*                                                                         *)
(* Conventions                                                             *)
(*  - a JavaScript string is a TLA+ string; where the code looks inside a  *)
(*    string (trim, toLowerCase, includes) the model goes through Chars,   *)
(*    the string's sequence of characters, and back through Str;           *)
(*  - a latitude or longitude is an integer number of micro-degrees;       *)
(*  - a distance is an integer number of millimetres, the value of the     *)
(*    source's haversine formula in double precision rounded up, so that   *)
(*    d <= r metres is decided exactly for every integer r;                *)
(*  - updated_at (a wall-clock stamp) is not part of the state.            *)
(***************************************************************************)
EXTENDS Integers, Sequences, FiniteSets, TLC

VARIABLES
  lots,        \* mock: the in-memory lot store (part_000:374)
  call,        \* the last call made on the store, with its arguments
  ret,         \* the value that call returned
  npush,       \* number of pushUpdates calls made so far
  USE_MOCK,    \* CONFIG.useMock (part_000:15)
  searchBox,   \* searchBox.value
  sugShown,    \* suggestionsEl.style.display = 'block'
  sugItems,    \* the places of the <li> elements of suggestionsEl
  currentDestination,
  status,      \* statusEl.textContent
  markers,     \* the Map `markers`, in insertion order
  cards,       \* the .lot-card children of lotListEl
  lastParkingItems,   \* window.__lastParkingItems
  mapCenter,   \* map.getCenter()
  envCards,    \* the titles of the .env-card children of #envSuggestions
  timers,      \* the live timers of the page (setTimeout and setInterval)
  debounceTimer,      \* the handle held in `debounceTimer` (0: undefined)
  mockInterval,       \* the handle held in `mockInterval` (0: undefined)
  micro,       \* the microtask queue: continuations of settled promises
  net,         \* HTTP requests in flight, in the order they were sent
  resolveSeq,  \* history: number of chooseDestination calls made
  hist,        \* history: per chooseDestination call, how its fetch ended
  lastInput,   \* history: trimmed text of the last input event
  sinceInput,  \* history: ms since the last input event (capped)
  ninput,      \* history: number of input events so far
  nenter       \* history: number of Enter presses with text in the box

storeVars == <<lots, call, ret, npush>>
domVars == <<searchBox, sugShown, sugItems, currentDestination, status,
             markers, cards, lastParkingItems, mapCenter, envCards>>
timerVars == <<timers, debounceTimer, mockInterval>>
taskVars == <<micro, net>>
histVars == <<resolveSeq, hist, lastInput, sinceInput, ninput, nenter>>
uiVars == <<USE_MOCK, domVars, timerVars, taskVars, histVars>>
vars == <<storeVars, uiVars>>

Max(a, b) == IF a >= b THEN a ELSE b
Min(a, b) == IF a <= b THEN a ELSE b
Range(s) == {s[i] : i \in DOMAIN s}

\* ---------------------------------------------------------------- bounds
MaxPush == 2      \* pushUpdates calls in one behaviour
MaxResolves == 2  \* chooseDestination calls in one behaviour
MaxNet == 2       \* HTTP requests in flight at once
MaxFire == 1      \* firings of the feed in one behaviour
MaxInputs == 2    \* input events and Enter presses of the search box in one behaviour
TickMs == 125     \* the step of the clock, in ms

\* --------------------------------------------------------------- strings
Chars ==
     "Federation Square" :> <<"F","e","d","e","r","a","t","i","o","n"," ","S","q","u","a","r","e">>
  @@ "Monash Caulfield Campus" :> <<"M","o","n","a","s","h"," ","C","a","u","l","f","i","e","l","d"," ","C","a","m","p","u","s">>
  @@ "Swanston St & Bourke St" :> <<"S","w","a","n","s","t","o","n"," ","S","t"," ","&"," ","B","o","u","r","k","e"," ","S","t">>
  @@ "Flinders Street" :> <<"F","l","i","n","d","e","r","s"," ","S","t","r","e","e","t">>
  @@ "fed" :> <<"f","e","d">>
  @@ "St" :> <<"S","t">>
  @@ " st " :> <<" ","s","t"," ">>
  @@ " ca " :> <<" ","c","a"," ">>
  @@ "ca" :> <<"c","a">>
  @@ "st" :> <<"s","t">>
  @@ "zzz" :> <<"z","z","z">>
  @@ "Flinders St Car Park" :> <<"F","l","i","n","d","e","r","s"," ","S","t"," ","C","a","r"," ","P","a","r","k">>
  @@ "Fed Square Parking" :> <<"F","e","d"," ","S","q","u","a","r","e"," ","P","a","r","k","i","n","g">>
  @@ "QV Melbourne Parking" :> <<"Q","V"," ","M","e","l","b","o","u","r","n","e"," ","P","a","r","k","i","n","g">>
  @@ "Melbourne Central CP" :> <<"M","e","l","b","o","u","r","n","e"," ","C","e","n","t","r","a","l"," ","C","P">>
  @@ "Southgate Car Park" :> <<"S","o","u","t","h","g","a","t","e"," ","C","a","r"," ","P","a","r","k">>
  @@ "flinders" :> <<"f","l","i","n","d","e","r","s">>
  @@ "FLINDERS" :> <<"F","L","I","N","D","E","R","S">>
  @@ "fed qv" :> <<"f","e","d"," ","q","v">>
  @@ " car  park " :> <<" ","c","a","r"," "," ","p","a","r","k"," ">>
  @@ "" :> <<>>
  @@ "  " :> <<" "," ">>

Str(cs) == CHOOSE s \in DOMAIN Chars : Chars[s] = cs

Upper == <<"A","B","C","D","E","F","G","H","I","J","K","L","M","N","O","P","Q","R","S","T","U","V","W","X","Y","Z">>
Lower == <<"a","b","c","d","e","f","g","h","i","j","k","l","m","n","o","p","q","r","s","t","u","v","w","x","y","z">>

lowerChar(c) ==
  IF \E i \in DOMAIN Upper : Upper[i] = c
  THEN Lower[CHOOSE i \in DOMAIN Upper : Upper[i] = c]
  ELSE c

\* String.prototype.toLowerCase, on the characters
toLowerCase(cs) == [i \in DOMAIN cs |-> lowerChar(cs[i])]

\* String.prototype.includes, on the characters
includes(hay, needle) ==
  \E k \in 0..(Len(hay) - Len(needle)) :
    \A i \in 1..Len(needle) : hay[k + i] = needle[i]

\* String.prototype.trim, on the characters
trimChars(cs) ==
  LET nonblank == {i \in DOMAIN cs : cs[i] # " "}
  IN IF nonblank = {} THEN <<>>
     ELSE LET lo == CHOOSE i \in nonblank : \A j \in nonblank : i <= j
              hi == CHOOSE i \in nonblank : \A j \in nonblank : i >= j
          IN SubSeq(cs, lo, hi)

trim(s) == Str(trimChars(Chars[s]))

\* -------------------------------------------------------------- fixtures
places ==
  << [place_id |-> "g-fedsq",     name |-> "Federation Square",       lat |-> -37817979, lng |-> 144969093],
     [place_id |-> "g-caulfield", name |-> "Monash Caulfield Campus", lat |-> -37877000, lng |-> 145044300],
     [place_id |-> "g-swanston",  name |-> "Swanston St & Bourke St", lat |-> -37813400, lng |-> 144963500] >>

MAP_DEFAULT == [lat |-> -37813600, lng |-> 144963100]

\* mock: the initial value of `lots`
lotsFixture ==
  << [id |-> "CP-101", name |-> "Flinders Lane Car Park",   lat |-> -37817300, lng |-> 144965500, capacity |-> 220, available_spots |-> 88, price |-> "$3/hr"],
     [id |-> "CP-102", name |-> "Russell St Car Park",      lat |-> -37812800, lng |-> 144967500, capacity |-> 160, available_spots |-> 47, price |-> "$4/hr"],
     [id |-> "CP-103", name |-> "QV Car Park",              lat |-> -37810600, lng |-> 144965200, capacity |-> 120, available_spots |-> 12, price |-> "$5/hr"],
     [id |-> "CP-201", name |-> "Derby Rd Car Park",        lat |-> -37877900, lng |-> 145044900, capacity |-> 180, available_spots |-> 61, price |-> "$3/hr"],
     [id |-> "CP-202", name |-> "Caulfield Plaza Car Park", lat |-> -37876500, lng |-> 145043100, capacity |-> 140, available_spots |-> 9,  price |-> "$3/hr"] >>

\* The haversine formula of part_000:382-383 (and distanceMeters, :395-396),
\* evaluated on the points of the model: <<lat1, lng1, lat2, lng2, millimetres>>.
HavRows ==
  { <<-37877200, 145044000, -37817300, 144965500, 9585013>>,
    <<-37877200, 145044000, -37812800, 144967500, 9818411>>,
    <<-37877200, 145044000, -37810600, 144965200, 10135088>>,
    <<-37877200, 145044000, -37877900, 145044900, 110898>>,
    <<-37877200, 145044000, -37876500, 145043100, 110899>>,
    <<-37877200, 145044000, -37818300, 144967100, 9406701>>,
    <<-37877200, 145044000, -37817900, 144969100, 9312906>>,
    <<-37877200, 145044000, -37810300, 144964300, 10213486>>,
    <<-37877200, 145044000, -37810700, 144962600, 10284304>>,
    <<-37877200, 145044000, -37820300, 144965700, 9343250>>,
    <<-37817979, 144969093, -37817300, 144965500, 324516>>,
    <<-37817979, 144969093, -37812800, 144967500, 592637>>,
    <<-37817979, 144969093, -37810600, 144965200, 888922>>,
    <<-37817979, 144969093, -37877900, 145044900, 9418014>>,
    <<-37817979, 144969093, -37876500, 145043100, 9196225>>,
    <<-37817979, 144969093, -37818300, 144967100, 178667>>,
    <<-37817979, 144969093, -37817900, 144969100, 8806>>,
    <<-37817979, 144969093, -37810300, 144964300, 952030>>,
    <<-37817979, 144969093, -37810700, 144962600, 990169>>,
    <<-37817979, 144969093, -37820300, 144965700, 394250>>,
    <<-37877000, 145044300, -37817300, 144965500, 9588570>>,
    <<-37877000, 145044300, -37812800, 144967500, 9820280>>,
    <<-37877000, 145044300, -37810600, 144965200, 10136888>>,
    <<-37877000, 145044300, -37877900, 145044900, 113086>>,
    <<-37877000, 145044300, -37876500, 145043100, 119098>>,
    <<-37877000, 145044300, -37818300, 144967100, 9410195>>,
    <<-37877000, 145044300, -37817900, 144969100, 9315831>>,
    <<-37877000, 145044300, -37810300, 144964300, 10215403>>,
    <<-37877000, 145044300, -37810700, 144962600, 10286687>>,
    <<-37877000, 145044300, -37820300, 144965700, 9347642>>,
    <<-37813400, 144963500, -37817300, 144965500, 467897>>,
    <<-37813400, 144963500, -37812800, 144967500, 357661>>,
    <<-37813400, 144963500, -37810600, 144965200, 345310>>,
    <<-37813400, 144963500, -37877900, 145044900, 10125469>>,
    <<-37813400, 144963500, -37876500, 145043100, 9903682>>,
    <<-37813400, 144963500, -37818300, 144967100, 629977>>,
    <<-37813400, 144963500, -37817900, 144969100, 701685>>,
    <<-37813400, 144963500, -37810300, 144964300, 351796>>,
    <<-37813400, 144963500, -37810700, 144962600, 310463>>,
    <<-37813400, 144963500, -37820300, 144965700, 791209>>,
    <<-37813600, 144963100, -37817300, 144965500, 462292>>,
    <<-37813600, 144963100, -37812800, 144967500, 396625>>,
    <<-37813600, 144963100, -37810600, 144965200, 381197>>,
    <<-37813600, 144963100, -37877900, 145044900, 10134583>>,
    <<-37813600, 144963100, -37876500, 145043100, 9912790>>,
    <<-37813600, 144963100, -37818300, 144967100, 629753>>,
    <<-37813600, 144963100, -37817900, 144969100, 711621>>,
    <<-37813600, 144963100, -37810300, 144964300, 381786>>,
    <<-37813600, 144963100, -37810700, 144962600, 325443>>,
    <<-37813600, 144963100, -37820300, 144965700, 779227>>,
    <<-37810600, 144965200, -37817300, 144965500, 745472>>,
    <<-37810600, 144965200, -37812800, 144967500, 317281>>,
    <<-37810600, 144965200, -37810600, 144965200, 0>>,
    <<-37810600, 144965200, -37877900, 145044900, 10245894>>,
    <<-37810600, 144965200, -37876500, 145043100, 10024284>>,
    <<-37810600, 144965200, -37818300, 144967100, 872317>>,
    <<-37810600, 144965200, -37817900, 144969100, 881059>>,
    <<-37810600, 144965200, -37810300, 144964300, 85814>>,
    <<-37810600, 144965200, -37810700, 144962600, 228677>>,
    <<-37810600, 144965200, -37820300, 144965700, 1079485>>,
    <<-38149900, 144361700, -37817300, 144965500, 64560880>>,
    <<-38149900, 144361700, -37812800, 144967500, 64993256>>,
    <<-38149900, 144361700, -37810600, 144965200, 64971075>>,
    <<-38149900, 144361700, -37877900, 145044900, 67060074>>,
    <<-38149900, 144361700, -37876500, 145043100, 66990380>>,
    <<-38149900, 144361700, -37818300, 144967100, 64612053>>,
    <<-38149900, 144361700, -37817900, 144969100, 64781523>>,
    <<-38149900, 144361700, -37810300, 144964300, 64926356>>,
    <<-38149900, 144361700, -37810700, 144962600, 64779186>>,
    <<-38149900, 144361700, -37820300, 144965700, 64383892>>,
    <<-37818300, 144967100, -37818300, 144967100, 0>>,
    <<-37818300, 144967100, -37817900, 144969100, 181223>>,
    <<-37818300, 144967100, -37810300, 144964300, 922938>>,
    <<-37818300, 144967100, -37810700, 144962600, 932965>>,
    <<-37818300, 144967100, -37820300, 144965700, 254126>>,
    <<-37817900, 144969100, -37818300, 144967100, 181223>>,
    <<-37817900, 144969100, -37817900, 144969100, 0>>,
    <<-37817900, 144969100, -37810300, 144964300, 944434>>,
    <<-37817900, 144969100, -37810700, 144962600, 983358>>,
    <<-37818300, 144967100, -37817300, 144965500, 179213>>,
    <<-37818300, 144967100, -37812800, 144967500, 612581>>,
    <<-37818300, 144967100, -37810600, 144965200, 872317>>,
    <<-37818300, 144967100, -37877900, 145044900, 9517595>>,
    <<-37818300, 144967100, -37876500, 145043100, 9295807>>,
    <<-37818100, 144968100, -37817300, 144965500, 245098>>,
    <<-37818100, 144968100, -37812800, 144967500, 591686>>,
    <<-37818100, 144968100, -37810600, 144965200, 872003>>,
    <<-37818100, 144968100, -37877900, 145044900, 9470380>>,
    <<-37818100, 144968100, -37876500, 145043100, 9248585>>,
    <<-37818100, 144968100, -37818300, 144967100, 90612>>,
    <<-37818100, 144968100, -37817900, 144969100, 90612>>,
    <<-37818100, 144968100, -37810300, 144964300, 929340>>,
    <<-37818100, 144968100, -37810700, 144962600, 954200>>,
    <<-37818100, 144968100, -37820300, 144965700, 322932>>,
    <<-37817900, 144969100, -37817300, 144965500, 323187>>,
    <<-37817900, 144969100, -37812800, 144967500, 584252>>,
    <<-37817900, 144969100, -37810600, 144965200, 881059>>,
    <<-37817900, 144969100, -37877900, 145044900, 9423799>>,
    <<-37817900, 144969100, -37876500, 145043100, 9202012>>,
    <<-37813950, 144966350, -37817300, 144965500, 379913>>,
    <<-37813950, 144966350, -37812800, 144967500, 162965>>,
    <<-37813950, 144966350, -37810600, 144965200, 385959>>,
    <<-37813950, 144966350, -37877900, 145044900, 9906390>>,
    <<-37813950, 144966350, -37876500, 145043100, 9684651>>,
    <<-37813950, 144966350, -37818300, 144967100, 488164>>,
    <<-37813950, 144966350, -37817900, 144969100, 501267>>,
    <<-37813950, 144966350, -37810300, 144964300, 444021>>,
    <<-37813950, 144966350, -37810700, 144962600, 488998>>,
    <<-37813950, 144966350, -37820300, 144965700, 708393>>,
    <<-37817900, 144969100, -37820300, 144965700, 400514>> }

\* mock: haversine(a, b), in millimetres
haversine(a, b) ==
  (CHOOSE r \in HavRows :
     r[1] = a.lat /\ r[2] = a.lng /\ r[3] = b.lat /\ r[4] = b.lng)[5]

\* distanceMeters(a, b): the same formula, written a second time in the source
distanceMeters(a, b) == haversine(a, b)

\* Centres a lot query is made for: the three gazetteer places, the default
\* map centre, a centre on top of lot CP-103 and one 65 km from every lot.
Centres ==
  { [lat |-> places[i].lat, lng |-> places[i].lng] : i \in DOMAIN places }
  \cup { MAP_DEFAULT,
         [lat |-> -37810600, lng |-> 144965200],
         [lat |-> -38149900, lng |-> 144361700] }

\* Radii (metres) a lot query is made with
Radii == {0, 100, 350, 400, 900, 1200, 10000}

\* ------------------------------------------------------------ mock store
\* lots.filter(p => haversine(c,p) <= radius): the test of one lot
inRadius_strict(c, p, radius) == haversine(c, p) < radius * 1000
inRadius(c, p, radius) == haversine(c, p) <= radius * 1000

\* Array.prototype.sort((a,b) => a._d - b._d): stable, ascending in _d
RECURSIVE insertByD(_, _, _)
insertByD(sorted, p, c) ==
  IF sorted = <<>> THEN <<p>>
  ELSE IF haversine(c, p) < haversine(c, Head(sorted))
       THEN <<p>> \o sorted
       ELSE <<Head(sorted)>> \o insertByD(Tail(sorted), p, c)

RECURSIVE sortByD(_, _)
sortByD(s, c) ==
  IF s = <<>> THEN <<>>
  ELSE insertByD(sortByD(SubSeq(s, 1, Len(s) - 1), c), s[Len(s)], c)

slice(s, from, to) == SubSeq(s, from + 1, Min(to, Len(s)))

\* the fallback branch of mock.parkingNear: the 3 nearest lots
nearest_unsorted(store, c) == slice(store, 0, 3)
nearest(store, c) == slice(sortByD(store, c), 0, 3)

\* mock.parkingNear(lat, lng, radius): the items returned (copies of lots)
parkingNear_sortAll(store, c, radius) ==
  LET items == SelectSeq(store, LAMBDA p : inRadius(c, p, radius))
  IN IF Len(items) = 0 THEN nearest(store, c) ELSE sortByD(items, c)
parkingNear(store, c, radius) ==
  LET items == SelectSeq(store, LAMBDA p : inRadius(c, p, radius))
  IN IF Len(items) = 0 THEN nearest(store, c) ELSE items

\* lots.findIndex(l => l.id === id): 0-based, -1 when there is none
findIndex_first(store, id) ==
  IF \E i \in DOMAIN store : store[i].id = id
  THEN (CHOOSE i \in DOMAIN store :
          store[i].id = id /\ \A j \in DOMAIN store : store[j].id = id => i <= j) - 1
  ELSE 0
findIndex(store, id) ==
  IF \E i \in DOMAIN store : store[i].id = id
  THEN (CHOOSE i \in DOMAIN store :
          store[i].id = id /\ \A j \in DOMAIN store : store[j].id = id => i <= j) - 1
  ELSE -1

\* Math.floor((Math.random()-0.5)*8): Math.random() is in [0,1)
Deltas == -4..3

\* Math.max(0, Math.min(capacity, available_spots + delta))
clamp_noFloor(capacity, v) == Min(capacity, v)
clamp(capacity, v) == Max(0, Min(capacity, v))

\* mock.pushUpdates(ids): the store and the list of changes after the loop.
\* draws holds the values of Math.floor((Math.random()-0.5)*8) in the order
\* the loop takes them: one for each id found, none for an id that is skipped.
RECURSIVE pushLoop(_, _, _, _)
pushLoop(store, changes, ids, draws) ==
  IF ids = <<>> THEN [lots |-> store, changes |-> changes]
  ELSE LET i == findIndex(store, Head(ids))
       IN IF i = -1
          THEN pushLoop(store, changes, Tail(ids), draws)
          ELSE LET upd == [store[i + 1] EXCEPT !.available_spots =
                             clamp(store[i + 1].capacity,
                                   store[i + 1].available_spots + Head(draws))]
                   st2 == [store EXCEPT ![i + 1] = upd]
               IN pushLoop(st2, Append(changes, upd), Tail(ids), Tail(draws))

pushUpdates(store, ids, draws) == pushLoop(store, <<>>, ids, draws)

\* how many draws pushUpdates(ids) takes on this store
nDraws(store, ids) == Cardinality({k \in DOMAIN ids : findIndex(store, ids[k]) # -1})

\* ------------------------------------------------- store specifications
\* Values of available_spots the store can hold after some run of the feed:
\* the fixture's, a store near empty, a store near full.
withAvail(av) == [i \in DOMAIN lotsFixture |-> [lotsFixture[i] EXCEPT !.available_spots = av[i]]]

StoreProfiles ==
  { lotsFixture,
    withAvail(<<2, 0, 1, 3, 2>>),
    withAvail(<<219, 160, 118, 179, 138>>) }

\* Id lists pushUpdates is called with: empty, unknown, known, repeated, mixed
IdLists ==
  { <<>>, <<"CP-999">>, <<"CP-101">>, <<"CP-202", "CP-202">>, <<"CP-999", "CP-101">> }

NoCall == [op |-> "none"]

\* the page before any event
InitUi ==
  /\ searchBox = "" /\ sugShown = FALSE /\ sugItems = <<>>
  /\ currentDestination = [name |-> "", lat |-> 0, lng |-> 0]
  /\ status = [kind |-> "initial", n |-> 0, name |-> ""]
  /\ markers = <<>> /\ cards = <<>> /\ lastParkingItems = <<>>
  /\ mapCenter = [lat |-> MAP_DEFAULT.lat, lng |-> MAP_DEFAULT.lng]
  /\ envCards = <<>>
  /\ timers = {} /\ debounceTimer = 0 /\ mockInterval = 0
  /\ micro = <<>> /\ net = <<>>
  /\ resolveSeq = 0 /\ hist = <<>>
  /\ lastInput = "" /\ sinceInput = 0
  /\ ninput = 0
  /\ nenter = 0

InitStore ==
  /\ lots \in StoreProfiles
  /\ call = NoCall
  /\ ret = <<>>
  /\ npush = 0
  /\ USE_MOCK = TRUE
  /\ InitUi

\* a call of mock.parkingNear(c.lat, c.lng, radius)
ParkingNearCall(c, radius) ==
  /\ call' = [op |-> "parkingNear", c |-> c, radius |-> radius]
  /\ ret' = parkingNear(lots, c, radius)
  /\ UNCHANGED <<lots, npush, uiVars>>

\* a call of mock.pushUpdates(ids)
PushUpdatesCall(ids, draws) ==
  /\ npush < MaxPush
  /\ LET r == pushUpdates(lots, ids, draws)
     IN /\ lots' = r.lots
        /\ ret' = r.changes
        /\ call' = [op |-> "pushUpdates", ids |-> ids, draws |-> draws, before |-> lots]
  /\ npush' = npush + 1
  /\ UNCHANGED uiVars

NextNear == \E c \in Centres, radius \in Radii : ParkingNearCall(c, radius)

NextPush ==
  \E ids \in IdLists :
    \E draws \in [1..nDraws(lots, ids) -> Deltas] : PushUpdatesCall(ids, draws)

\* mock.parkingNear as a function of the store, the centre and the radius
SpecNear == InitStore /\ [][NextNear]_vars

\* sequences of mock.pushUpdates calls
SpecPush == InitStore /\ [][NextPush]_vars

\* ------------------------------------------------ claims on the store
InRange(p) == 0 <= p.available_spots /\ p.available_spots <= p.capacity

\* the lot of store `st` with this id
lotOf(st, id) == st[CHOOSE i \in DOMAIN st : st[i].id = id]
idsOf(st) == {st[i].id : i \in DOMAIN st}

\* C2: after any sequence of pushUpdates calls, with any id list, every lot
\* of the store and every record the call returned has
\* 0 <= available_spots <= capacity.
C2_AvailableInRange ==
  /\ \A i \in DOMAIN lots : InRange(lots[i])
  /\ call.op = "pushUpdates" => \A k \in DOMAIN ret : InRange(ret[k])

\* a second call whose draw would have taken a lot below 0 and that returned 0 for it
C2_Witness ==
  /\ npush >= 2
  /\ call.op = "pushUpdates"
  /\ \E k \in DOMAIN ret :
       /\ ret[k].available_spots = 0
       /\ \E d \in Range(call.draws) : lotOf(call.before, ret[k].id).available_spots + d < 0

\* the lots of the store within `radius` metres of c, from the distances alone
within(st, c, radius) == {i \in DOMAIN st : haversine(c, st[i]) <= radius * 1000}

\* C5: when no lot lies within the radius, parkingNear returns exactly the
\* min(3, number of lots) nearest lots; its result is never empty while the
\* store holds a lot.
C5_FallbackNearest3 ==
  call.op = "parkingNear" =>
    /\ Len(lots) >= 1 => Len(ret) >= 1
    /\ within(lots, call.c, call.radius) = {} =>
         /\ Len(ret) = Min(3, Len(lots))
         /\ Cardinality({ret[k].id : k \in DOMAIN ret}) = Len(ret)
         /\ \A k \in DOMAIN ret : ret[k] = lotOf(lots, ret[k].id)
         /\ \A k \in DOMAIN ret : \A i \in DOMAIN lots :
              lots[i].id \notin {ret[j].id : j \in DOMAIN ret}
                => haversine(call.c, ret[k]) <= haversine(call.c, lots[i])

\* a fallback whose three nearest lots are not the first three of the store
C5_Witness ==
  /\ call.op = "parkingNear"
  /\ within(lots, call.c, call.radius) = {}
  /\ Len(ret) = 3
  /\ {ret[k].id : k \in DOMAIN ret} # {lots[1].id, lots[2].id, lots[3].id}

\* the place of the returned lot ret[k] in the store
storeIndex(k) == CHOOSE i \in DOMAIN lots : lots[i].id = ret[k].id

\* C18 as stated: the lots parkingNear returns (chooseDestination draws them
\* in the order returned) are in the order they have in the store, when
\* lots were found within the radius and when the nearest-3 fallback was taken.
C18_SourceOrder ==
  call.op = "parkingNear" =>
    \A k \in DOMAIN ret : \A l \in DOMAIN ret : k < l => storeIndex(k) < storeIndex(l)

\* C18, amended: lots found within the radius are returned in the order of
\* the store; the lots of the nearest-3 fallback are returned nearest first,
\* lots at the same distance in the order of the store.
C18_OrderOfSnapshot ==
  call.op = "parkingNear" =>
    \A k \in DOMAIN ret : \A l \in DOMAIN ret : k < l =>
      IF within(lots, call.c, call.radius) # {}
      THEN storeIndex(k) < storeIndex(l)
      ELSE \/ haversine(call.c, ret[k]) < haversine(call.c, ret[l])
           \/ /\ haversine(call.c, ret[k]) = haversine(call.c, ret[l])
              /\ storeIndex(k) < storeIndex(l)

\* a fallback result that is not in the order of the store, and (in another
\* state) a result within the radius that is not in the order of distance
C18_Witness ==
  /\ call.op = "parkingNear" /\ Len(ret) >= 2
  /\ \/ /\ within(lots, call.c, call.radius) = {}
        /\ \E k \in DOMAIN ret : \E l \in DOMAIN ret : k < l /\ storeIndex(k) > storeIndex(l)
     \/ /\ within(lots, call.c, call.radius) # {}
        /\ \E k \in DOMAIN ret : \E l \in DOMAIN ret :
             k < l /\ haversine(call.c, ret[k]) > haversine(call.c, ret[l])

FedSq == [lat |-> places[1].lat, lng |-> places[1].lng]

\* C6: when some lot lies within the radius, parkingNear returns exactly the
\* lots at distance <= radius (the boundary included), each once; Federation
\* Square with radius 900 yields CP-101, CP-102 and CP-103.
C6_RadiusFilter ==
  call.op = "parkingNear" =>
    /\ within(lots, call.c, call.radius) # {} =>
         /\ {ret[k].id : k \in DOMAIN ret}
              = {lots[i].id : i \in within(lots, call.c, call.radius)}
         /\ Len(ret) = Cardinality(within(lots, call.c, call.radius))
         /\ \A k \in DOMAIN ret : ret[k] = lotOf(lots, ret[k].id)
    /\ (call.c = FedSq /\ call.radius = 900) =>
         {ret[k].id : k \in DOMAIN ret} = {"CP-101", "CP-102", "CP-103"}

\* the Federation Square query has been made
C6_Witness ==
  /\ call.op = "parkingNear"
  /\ call.c = FedSq /\ call.radius = 900
  /\ Len(ret) = 3

\* C7: pushUpdates returns a record for each id of the list that is in the
\* store and for no other, and an id that is not in the store changes no lot.
C7_UnknownIdsSkipped ==
  call.op = "pushUpdates" =>
    /\ \A k \in DOMAIN ret : ret[k].id \in idsOf(call.before) /\ ret[k].id \in Range(call.ids)
    /\ Len(ret) = Cardinality({k \in DOMAIN call.ids : call.ids[k] \in idsOf(call.before)})
    /\ \A i \in DOMAIN lots : lots[i].id \notin Range(call.ids) => lots[i] = call.before[i]
    /\ Len(lots) = Len(call.before)

\* a call with an unknown and a known id returned one record
C7_Witness ==
  /\ call.op = "pushUpdates"
  /\ "CP-999" \in Range(call.ids)
  /\ Len(call.ids) = 2
  /\ Len(ret) = 1 /\ ret[1].id = "CP-101"

\* ================================================================ client
\* ---------------------------------------------------------- HTTP service
\* What a fetch() ends in: a rejection (network failure) or a response with
\* r.ok and a body, which is no JSON at all ("html"), a JSON object that is
\* no list and holds no items ("errobj"), or the JSON the route documents.
NetErr == [kind |-> "neterr", ok |-> FALSE, t |-> "none", items |-> <<>>]
Http(ok, t, items) == [kind |-> "http", ok |-> ok, t |-> t, items |-> items]

\* server.js: the records of GET /api/v1/parking
serverData ==
  << [id |-> "PARK001", name |-> "Flinders St Car Park", lat |-> -37818300, lng |-> 144967100, capacity |-> 200, available |-> 35],
     [id |-> "PARK002", name |-> "Fed Square Parking",   lat |-> -37817900, lng |-> 144969100, capacity |-> 150, available |-> 50],
     [id |-> "PARK003", name |-> "QV Melbourne Parking", lat |-> -37810300, lng |-> 144964300, capacity |-> 500, available |-> 120],
     [id |-> "PARK004", name |-> "Melbourne Central CP", lat |-> -37810700, lng |-> 144962600, capacity |-> 450, available |-> 80],
     [id |-> "PARK005", name |-> "Southgate Car Park",   lat |-> -37820300, lng |-> 144965700, capacity |-> 300, available |-> 60] >>

\* server.js: places of GET /api/v1/geo/search the model lets it answer with
serverPlaces ==
  << [name |-> "Flinders Street",   lat |-> -37818300, lng |-> 144967100],
     [name |-> "Federation Square", lat |-> -37817900, lng |-> 144969100] >>

\* Answers of the service at API_BASE to a lot query and to a place query
LotResponses ==
  { NetErr, Http(FALSE, "html", <<>>), Http(FALSE, "errobj", <<>>),
    Http(TRUE, "array", <<>>),
    Http(TRUE, "array", <<serverData[2], serverData[1]>>) }

GeoResponses ==
  { NetErr, Http(FALSE, "html", <<>>),
    Http(TRUE, "html", <<>>),
    Http(TRUE, "errobj", <<>>),
    Http(TRUE, "items", <<>>),
    Http(TRUE, "items", serverPlaces) }

\* The settled value of a promise
Fulfilled(t, items) == [st |-> "fulfilled", t |-> t, items |-> items]
Rejected == [st |-> "rejected", t |-> "none", items |-> <<>>]

\* r.json(): rejects when the body is no JSON
json(http) == IF http.t = "html" THEN Rejected ELSE Fulfilled(http.t, http.items)

\* ------------------------------------------------------------------ api
\* mock.geoSearch(q)
mock_geoSearch(q) ==
  slice(SelectSeq(places, LAMBDA p :
          includes(toLowerCase(Chars[p.name]), toLowerCase(Chars[q]))), 0, 8)

\* api.geoSearch(q) of src/app.js: no fallback
api_geoSearch_app(useMock, q, http) ==
  IF useMock THEN Fulfilled("items", mock_geoSearch(q))
  ELSE IF http.kind = "neterr" THEN Rejected
  ELSE json(http)

\* api.geoSearch(q) of part_000: the value its promise settles to, given what
\* the fetch ended in (not looked at in mock mode)
api_geoSearch(useMock, q, http) ==
  IF useMock THEN Fulfilled("items", mock_geoSearch(q))
  ELSE IF http.kind = "neterr" THEN Fulfilled("items", mock_geoSearch(q))
  ELSE IF http.ok THEN json(http)
  ELSE Fulfilled("items", mock_geoSearch(q))

\* a JavaScript number: an integer, NaN or Infinity
Num(n) == [kind |-> "int", v |-> n]
NaN == [kind |-> "NaN", v |-> 0]
Infinity == [kind |-> "Infinity", v |-> 0]

\* other JavaScript values a field of a parsed JSON record may hold:
\* undefined (no such field), null, and the string of the digits of n
Undefined == [kind |-> "undefined", v |-> 0]
Null == [kind |-> "null", v |-> 0]
JsString(n) == [kind |-> "string", v |-> n]

\* a ?? b
nullish(a, b) == IF a.kind \in {"undefined", "null"} THEN b ELSE a

\* (typeof p.available_spots === 'number') ? p.available_spots : (p.available ?? 0)
availableSpotsOf_nullish(available_spots, available) ==
  nullish(available_spots, nullish(available, Num(0)))
availableSpotsOf(available_spots, available) ==
  IF available_spots.kind = "int" THEN available_spots ELSE nullish(available, Num(0))

\* the field f of the record p, whose fields hold numbers
fieldOf(p, f) == IF f \in DOMAIN p THEN Num(p[f]) ELSE Undefined

\* mapBackendParking(p), p a record of the service
mapBackendParking(p) ==
  [ id |-> p.id, name |-> p.name, lat |-> p.lat, lng |-> p.lng,
    capacity |-> p.capacity,
    available_spots |->
      availableSpotsOf(fieldOf(p, "available_spots"), fieldOf(p, "available")).v,
    price |-> IF "price" \in DOMAIN p THEN p.price ELSE "undefined" ]

\* api.parkingByDest(dest): r.ok is not looked at; r.json() rejects on a body
\* that is no JSON, arr.map throws on a body that is no array
api_parkingByDest(http) ==
  IF http.kind = "neterr" THEN Rejected
  ELSE IF http.t # "array" THEN Rejected
  ELSE Fulfilled("items", [k \in DOMAIN http.items |-> mapBackendParking(http.items[k])])

\* api.parkingNear(lat, lng, radius) in mock mode
api_parkingNear(store, c, radius) == Fulfilled("items", parkingNear(store, c, radius))

\* the lot fetch of chooseDestination settles without leaving the task (in
\* the microtask queue) in mock mode, and when the HTTP response arrives
\* otherwise
lotFetchVia_net(useMock) == "net"
lotFetchVia(useMock) == IF useMock THEN "micro" ELSE "net"

\* --------------------------------------------------------------- render
NoPlace == [name |-> "", lat |-> 0, lng |-> 0]

\* for (const it of items) it.distance_m = distanceMeters(place, it)
enrich(place, items) ==
  [k \in DOMAIN items |-> [distance_m |-> distanceMeters(place, items[k])] @@ items[k]]

popupHtml(p) ==
  [name |-> p.name, available_spots |-> p.available_spots, capacity |-> p.capacity]

\* free / cap <= 0.2 is 5 * free <= cap
iconClassFor(p) ==
  LET free == p.available_spots
      cap == Max(1, p.capacity)
  IN IF free <= 0 THEN "full" ELSE IF 5 * free <= cap THEN "low" ELSE "available"

\* upsertMarker(p) on the Map ms; clickP is the p the click listener closes over
upsertMarker(ms, p) ==
  IF \E i \in DOMAIN ms : ms[i].id = p.id
  THEN LET i == CHOOSE j \in DOMAIN ms : ms[j].id = p.id
       IN [ms EXCEPT ![i] = [@ EXCEPT !.popup = popupHtml(p), !.icon = iconClassFor(p), !.data = p]]
  ELSE Append(ms, [id |-> p.id, popup |-> popupHtml(p), icon |-> iconClassFor(p),
                   data |-> p, clickP |-> p])

lotCard(p) ==
  [h4 |-> p.name, badge |-> [available_spots |-> p.available_spots, capacity |-> p.capacity],
   red |-> (p.available_spots = 0), p |-> p]

\* markers.clear(); cluster.clearLayers()
clearMarkers_missing(ms) == ms
clearMarkers(ms) == <<>>

\* lotListEl.innerHTML = ''
clearCards_missing(cs) == cs
clearCards(cs) == <<>>

\* Array.from(markers.keys()): the keys in insertion order
markerKeys(ms) == [k \in DOMAIN ms |-> ms[k].id]

RECURSIVE upsertAll(_, _)
upsertAll(ms, items) ==
  IF items = <<>> THEN ms ELSE upsertAll(upsertMarker(ms, Head(items)), Tail(items))

\* lots.slice().sort((a,b) => a.distance_m - b.distance_m): a stable sort
RECURSIVE insertByDistance(_, _)
insertByDistance(sorted, p) ==
  IF sorted = <<>> THEN <<p>>
  ELSE IF p.distance_m < Head(sorted).distance_m THEN <<p>> \o sorted
  ELSE <<Head(sorted)>> \o insertByDistance(Tail(sorted), p)

RECURSIVE sortByDistance(_)
sortByDistance(s) ==
  IF s = <<>> THEN <<>>
  ELSE insertByDistance(sortByDistance(SubSeq(s, 1, Len(s) - 1)), s[Len(s)])

\* the lot renderEnvSuggestions takes for the nearest
envNearest_first(ls) == ls[1]
envNearest(ls) == sortByDistance(ls)[1]

\* renderEnvSuggestions(place, lots): the titles of the cards it appends;
\* distance_m is in millimetres here, so km <= 1.2 is distance_m <= 1200000
renderEnvSuggestions(ls) ==
  IF Len(ls) = 0 THEN <<"Public transport">>
  ELSE LET d == envNearest(ls).distance_m
       IN IF d <= 1200000 THEN <<"Walk", "Cycle", "Public transport">>
          ELSE IF d <= 5000000 THEN <<"Cycle", "Public transport", "Park & Walk">>
          ELSE <<"Public transport", "Park & Ride", "Car share">>

\* map.fitBounds(cluster.getBounds()): the view is centred on the middle of
\* the box around the markers (the padding and the projection left out)
fitBounds(items) ==
  LET lats == {items[k].lat : k \in DOMAIN items}
      lngs == {items[k].lng : k \in DOMAIN items}
      lo(S) == CHOOSE x \in S : \A y \in S : x <= y
      hi(S) == CHOOSE x \in S : \A y \in S : x >= y
  IN [lat |-> (lo(lats) + hi(lats)) \div 2, lng |-> (lo(lngs) + hi(lngs)) \div 2]

\* ---------------------------------------------------------------- timers
DebounceMs == 250

timerIds(ts) == {t.id : t \in ts}
freshId(ts, held) ==
  CHOOSE n \in 1..(Cardinality(ts) + Cardinality(held) + 1) :
    /\ n \notin timerIds(ts) \cup held
    /\ \A m \in 1..(n - 1) : m \in timerIds(ts) \cup held

\* clearTimeout(h) / clearInterval(h)
clearTimer(ts, h) == {t \in ts : t.id # h}

\* line 111 of the input listener: clearTimeout(debounceTimer)
clearDebounce_missing(ts, h) == ts
clearDebounce(ts, h) == clearTimer(ts, h)

\* if (!USE_MOCK) return; at the head of subscribeRealtime
feedEnabled_always(useMock) == TRUE
feedEnabled(useMock) == useMock

\* subscribeRealtime(), called by the chooseDestination call number nr
subscribeRealtime_noClear(useMock, ts, mi, held, nr) ==
  IF ~feedEnabled(useMock) THEN [timers |-> ts, mockInterval |-> mi]
  ELSE LET id == freshId(ts, held \cup {mi})
       IN [timers |-> ts \cup {[id |-> id, kind |-> "feed", q |-> "", nr |-> nr, left |-> 0]},
           mockInterval |-> id]
subscribeRealtime(useMock, ts, mi, held, nr) ==
  IF ~feedEnabled(useMock) THEN [timers |-> ts, mockInterval |-> mi]
  ELSE LET cleared == IF mi # 0 THEN clearTimer(ts, mi) ELSE ts
           id == freshId(cleared, held)
       IN [timers |-> cleared \cup {[id |-> id, kind |-> "feed", q |-> "", nr |-> nr, left |-> 0]},
           mockInterval |-> id]

\* ------------------------------------------------------ the page's tasks
\* A browser runs one task at a time and empties the microtask queue before
\* it takes the next task: every event, timer and HTTP completion below
\* waits for micro = <<>>.
Pending == [st |-> "pending", t |-> "none", items |-> <<>>]
Task(k, nr, place, q, res) == [k |-> k, nr |-> nr, place |-> place, q |-> q, res |-> res]

RemoveAt(sq, i) == SubSeq(sq, 1, i - 1) \o SubSeq(sq, i + 1, Len(sq))

\* Texts the user leaves in the search box
TypedTexts == {"fed", " ca ", "zzz", ""}

\* Values of Math.floor((Math.random()-0.5)*8) the feed is run with: the
\* least and the greatest
FeedDraws == {-4, 3}

Init ==
  /\ lots = lotsFixture
  /\ call = NoCall /\ ret = <<>> /\ npush = 0
  /\ USE_MOCK \in BOOLEAN
  /\ InitUi

\* searchBox 'input' listener
Input(text) ==
  /\ micro = <<>>
  /\ ninput + nenter < MaxInputs
  /\ text # searchBox
  /\ searchBox' = text
  /\ ninput' = ninput + 1
  /\ LET q == trim(text)
         ts == clearDebounce(timers, debounceTimer)
     IN /\ lastInput' = q
        /\ sinceInput' = 0
        /\ IF q = ""
           THEN /\ sugShown' = FALSE
                /\ timers' = ts
                /\ UNCHANGED debounceTimer
           ELSE LET id == freshId(ts, {mockInterval})
                IN /\ timers' = ts \cup {[id |-> id, kind |-> "debounce", q |-> q,
                                          nr |-> 0, left |-> DebounceMs]}
                   /\ debounceTimer' = id
                   /\ UNCHANGED sugShown
  /\ UNCHANGED <<storeVars, USE_MOCK, sugItems, currentDestination, status, markers,
                 cards, lastParkingItems, mapCenter, envCards, mockInterval, taskVars, resolveSeq,
                 hist, nenter>>

\* TickMs of time pass
Tick ==
  /\ micro = <<>>
  /\ timers' = {[t EXCEPT !.left = Max(0, @ - TickMs)] : t \in timers}
  /\ sinceInput' = Min(sinceInput + TickMs, DebounceMs)
  /\ UNCHANGED <<storeVars, USE_MOCK, domVars, debounceTimer, mockInterval, taskVars,
                 resolveSeq, hist, lastInput, ninput, nenter>>

\* the callback of the debounce timer, up to its await of api.geoSearch(q)
DebounceFire(t) ==
  /\ micro = <<>>
  /\ t \in timers /\ t.kind = "debounce" /\ t.left = 0
  /\ timers' = timers \ {t}
  /\ IF USE_MOCK
     THEN /\ micro' = Append(micro, Task("suggest", 0, NoPlace, t.q, api_geoSearch(TRUE, t.q, NetErr)))
          /\ UNCHANGED net
     ELSE /\ Len(net) < MaxNet
          /\ net' = Append(net, Task("suggest", 0, NoPlace, t.q, Pending))
          /\ UNCHANGED micro
  /\ UNCHANGED <<storeVars, USE_MOCK, domVars, debounceTimer, mockInterval, histVars>>

ResponsesFor(r) ==
  IF r.res.st # "pending" THEN {NetErr}
  ELSE IF r.k \in {"suggest", "enter"} THEN GeoResponses ELSE LotResponses

\* an HTTP request ends: the api function settles its promise
NetComplete(i, http) ==
  /\ micro = <<>>
  /\ i \in DOMAIN net
  /\ http \in ResponsesFor(net[i])
  /\ LET r == net[i]
         settled == IF r.res.st # "pending" THEN r.res
                    ELSE IF r.k \in {"suggest", "enter"} THEN api_geoSearch(USE_MOCK, r.q, http)
                    ELSE api_parkingByDest(http)
     IN /\ net' = RemoveAt(net, i)
        /\ micro' = Append(micro, [r EXCEPT !.res = settled])
        /\ hist' = IF r.k = "resolve" /\ r.res.st = "pending"
                   THEN [hist EXCEPT ![r.nr].http = IF http.kind = "neterr" THEN "neterr"
                                                    ELSE IF http.ok THEN "ok" ELSE "nonok"]
                   ELSE hist
  /\ UNCHANGED <<storeVars, USE_MOCK, domVars, timerVars, resolveSeq, lastInput,
                 sinceInput, ninput, nenter>>

\* the debounce callback after its await: renderSuggestions(results.items)
SuggestContinue ==
  /\ micro # <<>> /\ Head(micro).k = "suggest"
  /\ LET r == Head(micro).res
     IN IF r.st = "rejected" THEN UNCHANGED <<sugItems, sugShown>>
        ELSE IF r.t # "items"
             THEN sugItems' = <<>> /\ UNCHANGED sugShown   \* throws at items.length
             ELSE /\ sugItems' = r.items
                  /\ sugShown' = (Len(r.items) > 0)
  /\ micro' = Tail(micro)
  /\ UNCHANGED <<storeVars, USE_MOCK, searchBox, currentDestination, status, markers,
                 cards, lastParkingItems, mapCenter, envCards, timerVars, net, histVars>>

\* chooseDestination(place), up to its await of the lot fetch, called with
\* mq the microtasks queued behind the caller
chooseDestinationFrom(place, mq) ==
  /\ sugShown' = FALSE
  /\ searchBox' = place.name
  /\ currentDestination' = place
  /\ mapCenter' = [lat |-> place.lat, lng |-> place.lng]
  /\ status' = [kind |-> "loading", n |-> 0, name |-> ""]
  /\ resolveSeq' = resolveSeq + 1
  /\ hist' = Append(hist, [out |-> "pending", items |-> <<>>, http |-> "none",
                           overlap |-> \E k \in DOMAIN hist : hist[k].out = "pending"])
  /\ LET res == IF USE_MOCK THEN api_parkingNear(lots, place, 900) ELSE Pending
         task == Task("resolve", resolveSeq + 1, place, "", res)
     IN IF lotFetchVia(USE_MOCK) = "micro"
        THEN micro' = Append(mq, task) /\ UNCHANGED net
        ELSE Len(net) < MaxNet /\ net' = Append(net, task) /\ micro' = mq
  /\ UNCHANGED <<storeVars, USE_MOCK, sugItems, markers, cards, lastParkingItems,
                 envCards, timerVars, lastInput, sinceInput, ninput>>

\* chooseDestination(place) called by an event listener
chooseDestination(place) ==
  /\ chooseDestinationFrom(place, micro)
  /\ UNCHANGED nenter

\* Enter presses whose geoSearch has not settled yet
PendingEnters ==
  Cardinality({k \in DOMAIN net : net[k].k = "enter"})
  + Cardinality({k \in DOMAIN micro : micro[k].k = "enter"})

\* click (or Enter) on a suggestion
ClickSuggestion(i) ==
  /\ micro = <<>>
  /\ resolveSeq + PendingEnters < MaxResolves
  /\ sugShown /\ i \in DOMAIN sugItems
  /\ chooseDestination(sugItems[i])

\* searchBox 'keydown' listener with e.key = 'Enter', up to its await of
\* api.geoSearch(q)
EnterKey ==
  /\ micro = <<>>
  /\ LET q == trim(searchBox)
     IN IF q = ""
        THEN UNCHANGED vars
        ELSE /\ resolveSeq + PendingEnters < MaxResolves
             /\ ninput + nenter < MaxInputs
             /\ nenter' = nenter + 1
             /\ sugShown' = FALSE
             /\ IF USE_MOCK
                THEN /\ micro' = Append(micro, Task("enter", 0, NoPlace, q,
                                                    api_geoSearch(TRUE, q, NetErr)))
                     /\ UNCHANGED net
                ELSE /\ Len(net) < MaxNet
                     /\ net' = Append(net, Task("enter", 0, NoPlace, q, Pending))
                     /\ UNCHANGED micro
             /\ UNCHANGED <<storeVars, USE_MOCK, searchBox, sugItems, currentDestination,
                            status, markers, cards, lastParkingItems, mapCenter, envCards,
                            timerVars, resolveSeq, hist, lastInput, sinceInput,
                            ninput>>

\* the keydown listener after its await: the first place found, or the typed
\* text at the centre of the map; a rejected geoSearch goes to the catch
EnterContinue ==
  /\ micro # <<>> /\ Head(micro).k = "enter"
  /\ LET t == Head(micro)
         r == t.res
         found == r.st = "fulfilled" /\ r.t = "items" /\ Len(r.items) > 0
     IN IF r.st = "rejected"
        THEN /\ micro' = Tail(micro)
             /\ UNCHANGED <<storeVars, USE_MOCK, domVars, timerVars, net, resolveSeq,
                            hist, lastInput, sinceInput, ninput, nenter>>
        ELSE /\ UNCHANGED nenter
             /\ chooseDestinationFrom(
                  IF found THEN r.items[1]
                  ELSE [name |-> t.q, lat |-> mapCenter.lat, lng |-> mapCenter.lng],
                  Tail(micro))

\* chooseDestination after its await: lines 143-158; a rejected fetch ends it
ResolveContinue ==
  /\ micro # <<>> /\ Head(micro).k = "resolve"
  /\ LET t == Head(micro)
     IN IF t.res.st = "rejected"
        THEN /\ hist' = [hist EXCEPT ![t.nr].out = "failed"]
             /\ UNCHANGED <<lastParkingItems, markers, cards, status, mapCenter,
                            envCards, timerVars>>
        ELSE LET items == enrich(t.place, t.res.items)
                 sub == subscribeRealtime(USE_MOCK, timers, mockInterval, {debounceTimer}, t.nr)
             IN /\ lastParkingItems' = items
                /\ markers' = upsertAll(clearMarkers(markers), items)
                /\ cards' = clearCards(cards) \o [k \in DOMAIN items |-> lotCard(items[k])]
                /\ status' = IF Len(items) > 0
                             THEN [kind |-> "showing", n |-> Len(items), name |-> t.place.name]
                             ELSE [kind |-> "none", n |-> 0, name |-> ""]
                /\ mapCenter' = IF Len(items) > 0 THEN fitBounds(items) ELSE mapCenter
                /\ envCards' = renderEnvSuggestions(items)
                /\ timers' = sub.timers
                /\ mockInterval' = sub.mockInterval
                /\ UNCHANGED debounceTimer
                /\ hist' = [hist EXCEPT ![t.nr].out = "ok",
                                         ![t.nr].items = [k \in DOMAIN items |-> items[k].id]]
  /\ micro' = Tail(micro)
  /\ UNCHANGED <<storeVars, USE_MOCK, searchBox, sugShown, sugItems, currentDestination,
                 net, resolveSeq, lastInput, sinceInput, ninput, nenter>>

\* the setInterval callback of subscribeRealtime, for each returned record u
RECURSIVE mergeMarkers(_, _)
mergeMarkers(ms, updates) ==
  IF updates = <<>> THEN ms
  ELSE LET u == Head(updates)
       IN mergeMarkers([k \in DOMAIN ms |->
                          IF ms[k].id = u.id THEN [ms[k] EXCEPT !.popup = popupHtml(u)]
                          ELSE ms[k]], Tail(updates))

\* the body of cards.forEach(card => ...) for one card and one record u
mergeCard_unkeyed(card, u) ==
  [card EXCEPT !.badge = [available_spots |-> u.available_spots, capacity |-> u.capacity],
               !.red = (u.available_spots = 0)]
mergeCard(card, u) ==
  IF card.h4 = u.name
  THEN [card EXCEPT !.badge = [available_spots |-> u.available_spots, capacity |-> u.capacity],
                    !.red = (u.available_spots = 0)]
  ELSE card

RECURSIVE mergeCards(_, _)
mergeCards(cs, updates) ==
  IF updates = <<>> THEN cs
  ELSE mergeCards([k \in DOMAIN cs |-> mergeCard(cs[k], Head(updates))], Tail(updates))

\* a feed timer fires
FeedFire(t) ==
  /\ micro = <<>>
  /\ npush < MaxFire
  /\ t \in timers /\ t.kind = "feed"
  /\ LET ids == markerKeys(markers)
     IN \E draws \in [1..nDraws(lots, ids) -> FeedDraws] :
          LET r == pushUpdates(lots, ids, draws)
          IN /\ lots' = r.lots
             /\ ret' = r.changes
             /\ call' = [op |-> "pushUpdates", ids |-> ids, draws |-> draws, before |-> lots,
                         nr |-> t.nr]
             /\ markers' = mergeMarkers(markers, r.changes)
             /\ cards' = mergeCards(cards, r.changes)
  /\ npush' = npush + 1
  /\ UNCHANGED <<USE_MOCK, searchBox, sugShown, sugItems, currentDestination, status,
                 lastParkingItems, mapCenter, envCards, timerVars, taskVars, resolveSeq, hist,
                 lastInput, sinceInput, ninput, nenter>>

Next ==
  \/ \E text \in TypedTexts : Input(text)
  \/ Tick
  \/ \E t \in timers : DebounceFire(t)
  \/ \E i \in DOMAIN net : \E http \in GeoResponses \cup LotResponses : NetComplete(i, http)
  \/ SuggestContinue
  \/ \E i \in DOMAIN sugItems : ClickSuggestion(i)
  \/ EnterKey
  \/ EnterContinue
  \/ ResolveContinue
  \/ \E t \in timers : FeedFire(t)

Spec == Init /\ [][Next]_vars

\* ----------------------------------------------- claims on the client
\* the ids of the snapshot on display: markers, lot cards, cached item list
markerIds == [k \in DOMAIN markers |-> markers[k].id]
cardIds == [k \in DOMAIN cards |-> cards[k].p.id]
cachedIds == [k \in DOMAIN lastParkingItems |-> lastParkingItems[k].id]
Shows(ids) == markerIds = ids /\ cardIds = ids /\ cachedIds = ids

FeedTimers == {t \in timers : t.kind = "feed"}
DebounceTimers == {t \in timers : t.kind = "debounce"}

\* C1: when a chooseDestination call was started while the fetch of an
\* earlier call was still in flight, and it is the last call made, and every
\* fetch has completed, and its own fetch succeeded, then the markers, the lot
\* cards and the cached item list hold exactly the lots of its answer.
C1_LastResolveWins ==
  \A b \in DOMAIN hist :
    ( /\ b = resolveSeq
      /\ hist[b].overlap
      /\ \A k \in DOMAIN hist : hist[k].out # "pending"
      /\ hist[b].out = "ok" )
    => Shows(hist[b].items)

\* C3: a feed timer that fires was armed by the chooseDestination call made
\* last; the timer of an older snapshot does not fire once a new destination
\* has been chosen, its fetch in flight or not.
C3_OldFeedNeverFires ==
  [][\A t \in timers : FeedFire(t) => t.nr = resolveSeq]_vars

\* the feed of a second destination, chosen while the first was on display
\* with its feed armed, has fired
C3_Witness ==
  /\ call.op = "pushUpdates" /\ call.nr = 2
  /\ resolveSeq = 2
  /\ hist[1].out = "ok" /\ hist[2].out = "ok"

\* C4: at most one feed timer is live, and it is the one `mockInterval` holds.
C4_AtMostOneFeed ==
  /\ Cardinality(FeedTimers) <= 1
  /\ \A t \in FeedTimers : t.id = mockInterval

\* a second destination has armed its feed after the first had armed one
C4_Witness ==
  /\ resolveSeq = 2
  /\ hist[1].out = "ok" /\ hist[2].out = "ok"
  /\ \E t \in FeedTimers : t.nr = 2

\* C8: at most one debounce timer is pending; the timer that fires and issues
\* api.geoSearch carries the trimmed text of the last input event, and fires
\* when DebounceMs have passed since that event and not before.
C8_Debounce ==
  /\ [](Cardinality(DebounceTimers) <= 1)
  /\ [][\A t \in timers :
          DebounceFire(t) => (t.q = lastInput /\ sinceInput >= DebounceMs)]_vars

\* after two input events the debounce has issued a geoSearch for the second
\* text, " ca " trimmed, and no debounce timer is left
C8_Witness ==
  /\ ninput = 2 /\ lastInput = "ca"
  /\ DebounceTimers = {}
  /\ sinceInput >= DebounceMs
  /\ \E k \in DOMAIN micro : micro[k].k = "suggest" /\ micro[k].q = "ca"

\* C9: when the lot fetch of the last chooseDestination call has ended in a
\* network error or in a response that is not a success, and its continuation
\* has run, the call has completed with an empty lot list: no markers, no
\* cards, an empty cached list, and a status that is no longer the loading one.
C9_FetchFailureGivesEmptyReady ==
  \A n \in DOMAIN hist :
    ( /\ n = resolveSeq
      /\ hist[n].http \in {"neterr", "nonok"}
      /\ micro = <<>> )
    => /\ hist[n].out = "ok"
       /\ status.kind = "none"
       /\ markers = <<>> /\ cards = <<>> /\ lastParkingItems = <<>>

\* C15: a firing of the feed changes, of the lots on display, only the
\* entries of the lots whose records pushUpdates returned, each to the
\* availability of its record; the entries of the other lots stay as they
\* were, and the markers and the cards keep their order.
C15_FeedMergeLocal ==
  [][\A t \in timers : FeedFire(t) =>
       LET returned(id) == \E k \in DOMAIN ret' : ret'[k].id = id
           record(id) == ret'[CHOOSE k \in DOMAIN ret' : ret'[k].id = id]
       IN /\ DOMAIN markers' = DOMAIN markers /\ DOMAIN cards' = DOMAIN cards
          /\ \A k \in DOMAIN markers :
               /\ markers'[k].id = markers[k].id
               /\ IF returned(markers[k].id)
                  THEN markers'[k].popup = popupHtml(record(markers[k].id))
                  ELSE markers'[k] = markers[k]
          /\ \A k \in DOMAIN cards :
               /\ cards'[k].p = cards[k].p /\ cards'[k].h4 = cards[k].h4
               /\ IF returned(cards[k].p.id)
                  THEN /\ cards'[k].badge.available_spots = record(cards[k].p.id).available_spots
                       /\ cards'[k].badge.capacity = cards[k].badge.capacity
                  ELSE cards'[k] = cards[k]
    ]_vars

\* the feed has fired on a snapshot of two lots or more and has given two
\* cards different numbers
C15_Witness ==
  /\ call.op = "pushUpdates" /\ Len(ret) >= 2 /\ Len(cards) >= 2
  /\ \E k \in DOMAIN cards : cards[k].badge.available_spots # cards[k].p.available_spots
  /\ \E k \in DOMAIN cards : \E l \in DOMAIN cards :
       cards[k].badge.available_spots - cards[k].p.available_spots
         # cards[l].badge.available_spots - cards[l].p.available_spots

\* C16: every firing of the feed passes to pushUpdates the ids of the lots
\* of the snapshot on display at that moment, each once, none of an earlier
\* snapshot and none left out; pushUpdates with no ids returns no record and
\* leaves the store as it is.
C16_FeedIdsAreDisplayed ==
  /\ [](pushUpdates(lots, <<>>, <<>>) = [lots |-> lots, changes |-> <<>>])
  /\ [][\A t \in timers : FeedFire(t) =>
          /\ Len(call'.ids) = Len(cards)
          /\ Range(call'.ids) = Range(cardIds)
          /\ Range(call'.ids) = Range(cachedIds)
          /\ call'.ids = hist[resolveSeq].items
          /\ (cards = <<>> => (call'.ids = <<>> /\ ret' = <<>> /\ lots' = lots
                                 /\ markers' = markers /\ cards' = cards))
      ]_vars

\* the feed has fired after a second destination was given a snapshot of
\* other lots than the first
C16_Witness ==
  /\ call.op = "pushUpdates" /\ call.nr = 2 /\ call.nr = resolveSeq
  /\ hist[1].out = "ok" /\ hist[2].out = "ok"
  /\ Range(hist[1].items) # Range(hist[2].items)
  /\ Range(call.ids) = Range(hist[2].items)

\* C21: a step that chooses a destination (chooseDestination is called, by
\* a click on a suggestion or by the Enter key) leaves no debounce timer
\* pending, so that the search typed before the choice is never issued.
C21_ChoiceCancelsDebounce ==
  [][resolveSeq' # resolveSeq => DebounceTimers' = {}]_vars

\* C22 as stated: when chooseDestination completes with a lot list that is
\* not empty, a feed timer of that call is armed, with the mock and with the
\* remote data source.
C22_ReadyArmsFeed ==
  [][(ResolveContinue /\ Head(micro).res.st = "fulfilled" /\ Len(Head(micro).res.items) > 0)
       => \E f \in timers' : f.kind = "feed" /\ f.nr = Head(micro).nr /\ mockInterval' = f.id
    ]_vars

\* C22, amended: when chooseDestination completes, with the mock data source
\* the feed timer of that call is armed and is the only feed timer; with
\* the remote data source no timer is armed.
C22_ReadyArmsFeedOfMock ==
  [][(ResolveContinue /\ Head(micro).res.st = "fulfilled")
       => IF USE_MOCK
          THEN \E f \in timers' : /\ f.kind = "feed" /\ f.nr = Head(micro).nr
                                  /\ mockInterval' = f.id
                                  /\ FeedTimers' = {f}
          ELSE timers' = timers /\ FeedTimers' = {} /\ mockInterval' = 0
    ]_vars

\* a second destination has been drawn from the mock and its feed is armed
C22_Witness ==
  /\ USE_MOCK /\ resolveSeq = 2 /\ hist[2].out = "ok" /\ Len(cards) > 0
  /\ status.kind = "showing"
  /\ \E f \in FeedTimers : f.nr = 2 /\ mockInterval = f.id

\* C26: renderSuggestions is only ever run with the result of the search for
\* the text of the last input event, and while that text is empty the
\* suggestion list is hidden.
C26_SuggestionsOfLatestInput ==
  /\ [](lastInput = "" => ~sugShown)
  /\ [][(SuggestContinue /\ Head(micro).res.st = "fulfilled")
          => Head(micro).q = lastInput]_vars

\* C29: in every state the ids of the markers, of the lot cards and of the
\* cached item list are the same list, and it is the list of the lots of one
\* completed fetch (none before the first has completed): the view never
\* holds lots of two fetches.
C29_SingleSnapshot ==
  /\ markerIds = cardIds /\ cardIds = cachedIds
  /\ IF \E k \in DOMAIN hist : hist[k].out = "ok"
     THEN \E k \in DOMAIN hist : hist[k].out = "ok" /\ Shows(hist[k].items)
     ELSE Shows(<<>>)

\* two overlapping resolves have completed, the first one last, and its
\* lots alone are on display
C29_Witness ==
  /\ resolveSeq = 2 /\ hist[1].out = "ok" /\ hist[2].out = "ok"
  /\ hist[2].overlap /\ hist[1].items # hist[2].items
  /\ Len(cards) > 0 /\ Shows(hist[1].items)

\* C11: the continuation of an Enter press with text in the box starts a
\* destination resolve, for the first place of the geoSearch result when it
\* holds one, and otherwise for the typed text (trimmed) at the centre of the
\* map; an Enter press with no text starts no request and no resolve.
C11_EnterResolves ==
  [][ /\ EnterContinue =>
           LET t == Head(micro)
               r == t.res
               found == r.st = "fulfilled" /\ r.t = "items" /\ Len(r.items) > 0
           IN /\ resolveSeq' = resolveSeq + 1
              /\ currentDestination' =
                   IF found THEN r.items[1]
                   ELSE [name |-> t.q, lat |-> mapCenter.lat, lng |-> mapCenter.lng]
      /\ (EnterKey /\ trim(searchBox) = "") => UNCHANGED <<net, micro, resolveSeq>>
    ]_vars

\* ------------------------------------------------ api.geoSearch alone
\* the queries api.geoSearch is called with
GeoQueries == {"fed", "St", "st", "zzz", "", "Federation Square"}

\* the two clients of the repository that define api.geoSearch
Builds == {"part_000", "app.js"}

InitApi ==
  /\ lots = lotsFixture
  /\ call = NoCall /\ ret = <<>> /\ npush = 0
  /\ USE_MOCK \in BOOLEAN
  /\ InitUi

\* a call of api.geoSearch(q) whose fetch, when it makes one, ends in http
GeoSearchCall(build, q, http) ==
  /\ call' = [op |-> "geoSearch", build |-> build, q |-> q, http |-> http]
  /\ ret' = IF build = "app.js" THEN api_geoSearch_app(USE_MOCK, q, http)
            ELSE api_geoSearch(USE_MOCK, q, http)
  /\ UNCHANGED <<lots, npush, uiVars>>

NextApi ==
  \E build \in Builds, q \in GeoQueries, http \in GeoResponses : GeoSearchCall(build, q, http)

\* api.geoSearch as a function of the mode, the query and the fetch's outcome
SpecApi == InitApi /\ [][NextApi]_vars

\* C10: in remote mode api.geoSearch fulfils with a place list whatever the
\* HTTP request ends in, and on a network failure or a non-success status the
\* list is mock.geoSearch's for the same query.
C10_GeoSearchNeverFails ==
  (call.op = "geoSearch" /\ ~USE_MOCK) =>
    /\ ret.st = "fulfilled" /\ ret.t = "items"
    /\ (call.http.kind = "neterr" \/ ~call.http.ok) => ret.items = mock_geoSearch(call.q)

\* ---------------------------------------------- renderCharts: occupancy
MaxCap == 40   \* capacities 0..MaxCap are tried

\* <<capacity, available_spots>> with capacity <= 500 for which the double
\* (capacity - available_spots) / capacity * 100 falls just below a half that
\* the exact quotient reaches (57.49999999999999 for 40 and 17)
HalfLost ==
  { <<40, 17>>, <<80, 34>>, <<120, 51>>, <<160, 68>>, <<200, 85>>, <<200, 87>>,
    <<200, 143>>, <<200, 171>>, <<240, 102>>, <<280, 119>>, <<320, 136>>,
    <<360, 153>>, <<400, 170>>, <<400, 174>>, <<400, 286>>, <<400, 342>>,
    <<440, 187>>, <<480, 204>> }

\* Math.round(u / d * 100) for integers u >= 0 and d > 0: the nearest
\* integer, a half going up
roundPct(u, d) == (200 * u + d) \div (2 * d)


\* part_000: Math.round((l.capacity - l.available_spots) / Math.max(1, l.capacity) * 100)
occ_part000(capacity, available) ==
  IF <<capacity, available>> \in HalfLost
  THEN Num(roundPct(capacity - available, Max(1, capacity)) - 1)
  ELSE Num(roundPct(capacity - available, Max(1, capacity)))

\* src/app.js: Math.round((l.capacity - l.available_spots) / l.capacity * 100);
\* 0 / 0 is NaN and Math.round(NaN) is NaN, u / 0 is Infinity for u > 0
occ_app(capacity, available) ==
  IF capacity = 0
  THEN (IF capacity - available = 0 THEN NaN ELSE Infinity)
  ELSE IF <<capacity, available>> \in HalfLost
       THEN Num(roundPct(capacity - available, capacity) - 1)
       ELSE Num(roundPct(capacity - available, capacity))

\* the lots renderCharts is given: every capacity up to MaxCap with every
\* number of free spots, and two lots of the size of the fixture's
OccInputs ==
  { p \in (0..MaxCap) \X (0..MaxCap) : p[2] <= p[1] }
    \cup { <<100, 25>>, <<220, 88>> }

\* the occupancy renderCharts computes for one lot
OccCall(build, capacity, available) ==
  /\ call = NoCall
  /\ call' = [op |-> "occ", build |-> build, capacity |-> capacity, available |-> available]
  /\ ret' = IF build = "app.js" THEN occ_app(capacity, available)
            ELSE occ_part000(capacity, available)
  /\ UNCHANGED <<lots, npush, uiVars>>

NextOcc == \E build \in Builds, p \in OccInputs : OccCall(build, p[1], p[2])

SpecOcc == InitApi /\ [][NextOcc]_vars

\* C12: for every capacity >= 0 and 0 <= available_spots <= capacity the
\* occupancy computed is round((capacity - available_spots) / max(1, capacity)
\* * 100), an integer of 0..100; it is 0 for an empty lot of capacity 0 and 75
\* for capacity 100 with 25 spots free.
C12_OccupancyBounded ==
  call.op = "occ" =>
    /\ ret.kind = "int"
    /\ ret.v \in 0..100
    /\ ret.v = roundPct(call.capacity - call.available, Max(1, call.capacity))
    /\ (call.capacity = 0 /\ call.available = 0) => ret.v = 0
    /\ (call.capacity = 100 /\ call.available = 25) => ret.v = 75

\* ------------------------------------------- renderEnvSuggestions alone
MaxLots == 3   \* lots in the list renderEnvSuggestions is given

\* distances (mm) on both sides of the 1.2 km and 5 km thresholds
EnvDistances == {0, 1199999, 1200000, 1200001, 4999999, 5000000, 5000001, 65000000}

EnvInputs ==
  UNION { [1..n -> {[distance_m |-> d] : d \in EnvDistances}] : n \in 0..MaxLots }

EnvCall(ls) ==
  /\ call = NoCall
  /\ call' = [op |-> "env", lots |-> ls]
  /\ ret' = renderEnvSuggestions(ls)
  /\ UNCHANGED <<lots, npush, uiVars>>

NextEnv == \E ls \in EnvInputs : EnvCall(ls)

SpecEnv == InitApi /\ [][NextEnv]_vars

\* the least distance_m of a non-empty list
minDistance(ls) ==
  CHOOSE d \in {ls[k].distance_m : k \in DOMAIN ls} :
    \A k \in DOMAIN ls : d <= ls[k].distance_m

\* C13: the alternative modes shown are {Public transport} for an empty lot
\* list, and otherwise, with d the least distance of a lot, {Walk, Cycle,
\* Public transport} for d <= 1.2 km, {Cycle, Public transport, Park & Walk}
\* for 1.2 km < d <= 5 km, {Public transport, Park & Ride, Car share} beyond.
C13_AlternativeModes ==
  call.op = "env" =>
    LET ls == call.lots
        shown == Range(ret)
    IN /\ Len(ret) = Cardinality(shown)
       /\ IF Len(ls) = 0 THEN shown = {"Public transport"}
          ELSE IF minDistance(ls) <= 1200000
               THEN shown = {"Walk", "Cycle", "Public transport"}
          ELSE IF minDistance(ls) <= 5000000
               THEN shown = {"Cycle", "Public transport", "Park & Walk"}
          ELSE shown = {"Public transport", "Park & Ride", "Car share"}

\* a list whose first lot is beyond 5 km and whose nearest lot is exactly
\* 5 km away gives the middle set
C13_Witness ==
  /\ call.op = "env"
  /\ Len(call.lots) = 2
  /\ call.lots[1].distance_m = 65000000 /\ call.lots[2].distance_m = 5000000
  /\ Range(ret) = {"Cycle", "Public transport", "Park & Walk"}

\* --------------------------------------- HTTP service: GET /api/v1/parking
\* The distance of the route's filter (the haversine formula with atan2),
\* evaluated on the centres of the model and the records of serverData:
\* <<lat0, lng0, lat, lng, millimetres>>
ServerDistRows ==
  {
    <<-37818300, 144967100, -37818300, 144967100, 0>>,
    <<-37818300, 144967100, -37817900, 144969100, 181223>>,
    <<-37818300, 144967100, -37810300, 144964300, 922938>>,
    <<-37818300, 144967100, -37810700, 144962600, 932965>>,
    <<-37818300, 144967100, -37820300, 144965700, 254126>>,
    <<-37817979, 144969093, -37818300, 144967100, 178667>>,
    <<-37817979, 144969093, -37817900, 144969100, 8806>>,
    <<-37817979, 144969093, -37810300, 144964300, 952030>>,
    <<-37817979, 144969093, -37810700, 144962600, 990169>>,
    <<-37817979, 144969093, -37820300, 144965700, 394250>>,
    <<-37810300, 144964300, -37818300, 144967100, 922938>>,
    <<-37810300, 144964300, -37817900, 144969100, 944434>>,
    <<-37810300, 144964300, -37810300, 144964300, 0>>,
    <<-37810300, 144964300, -37810700, 144962600, 155826>>,
    <<-37810300, 144964300, -37820300, 144965700, 1118730>>,
    <<-38149900, 144361700, -37818300, 144967100, 64612053>>,
    <<-38149900, 144361700, -37817900, 144969100, 64781523>>,
    <<-38149900, 144361700, -37810300, 144964300, 64926356>>,
    <<-38149900, 144361700, -37810700, 144962600, 64779186>>,
    <<-38149900, 144361700, -37820300, 144965700, 64383892>> }

serverDist(c, p) ==
  (CHOOSE r \in ServerDistRows :
     r[1] = c.lat /\ r[2] = c.lng /\ r[3] = p.lat /\ r[4] = p.lng)[5]

\* q.split(/\s+/).filter(Boolean), on the characters
RECURSIVE splitTokens(_, _)
splitTokens(cs, cur) ==
  IF cs = <<>> THEN (IF cur = <<>> THEN <<>> ELSE <<cur>>)
  ELSE IF Head(cs) = " "
       THEN (IF cur = <<>> THEN <<>> ELSE <<cur>>) \o splitTokens(Tail(cs), <<>>)
       ELSE splitTokens(Tail(cs), Append(cur, Head(cs)))

\* tokens.some(t => name.includes(t))
tokensMatch_every(tokens, name) == \A k \in DOMAIN tokens : includes(name, tokens[k])
tokensMatch(tokens, name) == \E k \in DOMAIN tokens : includes(name, tokens[k])

\* a query parameter that is not in the URL
Absent == [given |-> FALSE]

\* the handler of GET /api/v1/parking: the array it answers with
parkingRoute(dest, centre, radius) ==
  LET r == IF radius = Absent THEN 900 ELSE radius.v
      inRad == IF centre = Absent THEN serverData
               ELSE SelectSeq(serverData, LAMBDA p : serverDist(centre, p) <= r * 1000)
      q == trimChars(toLowerCase(Chars[dest]))
  IN IF q = <<>> THEN inRad
     ELSE SelectSeq(inRad, LAMBDA p :
            tokensMatch(splitTokens(q, <<>>), toLowerCase(Chars[p.name])))

\* the requests made: dest, lat and lng (both or none), radius
RouteDests == {"", "  ", "flinders", "FLINDERS", "fed qv", " car  park ", "Flinders Street", "zzz"}
RouteCentres ==
  { Absent,
    [given |-> TRUE, lat |-> -37818300, lng |-> 144967100],
    [given |-> TRUE, lat |-> -37817979, lng |-> 144969093],
    [given |-> TRUE, lat |-> -37810300, lng |-> 144964300],
    [given |-> TRUE, lat |-> -38149900, lng |-> 144361700] }
RouteRadii == {Absent} \cup {[given |-> TRUE, v |-> r] : r \in {0, 200, 900, 950}}

ParkingRouteCall(dest, centre, radius) ==
  /\ call = NoCall
  /\ call' = [op |-> "GET /parking", dest |-> dest, centre |-> centre, radius |-> radius]
  /\ ret' = parkingRoute(dest, centre, radius)
  /\ UNCHANGED <<lots, npush, uiVars>>

NextRoute ==
  \E dest \in RouteDests, centre \in RouteCentres, radius \in RouteRadii :
    ParkingRouteCall(dest, centre, radius)

SpecRoute == InitApi /\ [][NextRoute]_vars

\* the words of a text: its maximal runs of characters that hold no blank
wordsOf(cs) ==
  { SubSeq(cs, p[1], p[2]) :
      p \in { x \in (DOMAIN cs) \X (DOMAIN cs) :
                /\ x[1] <= x[2]
                /\ \A k \in x[1]..x[2] : cs[k] # " "
                /\ (x[1] = 1 \/ cs[x[1] - 1] = " ")
                /\ (x[2] = Len(cs) \/ cs[x[2] + 1] = " ") } }

\* the place of a record in the fixture
serverIndex(p) == CHOOSE i \in DOMAIN serverData : serverData[i] = p

\* C14: GET /api/v1/parking answers with the fixture records, in fixture
\* order, that are within the radius (900 m when none is given) of the
\* coordinates when lat and lng are given, and whose lower-cased name holds
\* one of the words of the lower-cased dest when dest has a word; for
\* dest=flinders and no coordinates the answer is the record PARK001 alone.
C14_ParkingRoute ==
  call.op = "GET /parking" =>
    LET words == wordsOf(toLowerCase(Chars[call.dest]))
        r == IF call.radius = Absent THEN 900 ELSE call.radius.v
        passRadius(p) == call.centre = Absent \/ serverDist(call.centre, p) <= r * 1000
        passName(p) == words = {} \/ \E w \in words : includes(toLowerCase(Chars[p.name]), w)
        keep == {i \in DOMAIN serverData : passRadius(serverData[i]) /\ passName(serverData[i])}
    IN /\ Len(ret) = Cardinality(keep)
       /\ \A k \in DOMAIN ret : \E i \in keep : ret[k] = serverData[i]
       /\ \A k \in DOMAIN ret : \A l \in DOMAIN ret :
            k < l => serverIndex(ret[k]) < serverIndex(ret[l])
       /\ (call.dest = "flinders" /\ call.centre = Absent) => ret = <<serverData[1]>>

\* a dest of two words, the second matching a record outside the radius
C14_Witness ==
  /\ call.op = "GET /parking"
  /\ call.dest = "fed qv"
  /\ call.centre # Absent /\ call.centre.lat = -37817979
  /\ call.radius # Absent /\ call.radius.v = 950
  /\ Len(ret) = 1 /\ ret[1].id = "PARK002"

\* ------------------------------------------- the feed timer and the clock
\* subscribeRealtime with the delay of its setInterval kept, and time in ms.
MaxFeedFires == 3   \* firings of the feed timers in one behaviour
FeedStepMs == 500   \* the longest step of the clock, in ms

\* values of 2500 + Math.random() * 2000, Math.random() being in [0, 1)
FeedDelays == {2500, 3000, 4499}

\* setInterval(callback, delay) at the end of subscribeRealtime: the new
\* timer is due after delay ms; since counts the ms from its last firing
subscribeRealtimeAt(ts, mi, nr, delay) ==
  LET sub == subscribeRealtime(TRUE, ts, mi, {}, nr)
  IN [timers |-> {IF t.id = sub.mockInterval
                  THEN [id |-> t.id, kind |-> t.kind, q |-> t.q, nr |-> t.nr,
                        left |-> delay, delay |-> delay, since |-> 0]
                  ELSE t : t \in sub.timers},
      mockInterval |-> sub.mockInterval]

InitFeed == Init /\ USE_MOCK

\* a chooseDestination call ends in subscribeRealtime(); ret is the list of
\* the delays drawn so far
FeedSubscribe(delay) ==
  /\ Len(ret) < MaxResolves
  /\ LET sub == subscribeRealtimeAt(timers, mockInterval, Len(ret) + 1, delay)
     IN /\ timers' = sub.timers
        /\ mockInterval' = sub.mockInterval
  /\ ret' = Append(ret, delay)
  /\ call' = [op |-> "subscribeRealtime", gap |-> 0, delay |-> delay]
  /\ UNCHANGED <<lots, npush, USE_MOCK, domVars, debounceTimer, taskVars, histVars>>

\* time passes, up to the moment the next timer is due
FeedTick ==
  /\ timers # {}
  /\ \A t \in timers : t.left > 0
  /\ LET dt == Min(FeedStepMs, CHOOSE x \in {t.left : t \in timers} :
                                  \A t \in timers : x <= t.left)
     IN timers' = {[t EXCEPT !.left = @ - dt, !.since = @ + dt] : t \in timers}
  /\ UNCHANGED <<storeVars, USE_MOCK, domVars, debounceTimer, mockInterval, taskVars,
                 histVars>>

\* the interval timer t is due: its callback runs and setInterval makes it
\* due again after the delay it was created with
FeedFireAt(t) ==
  /\ npush < MaxFeedFires
  /\ t \in timers /\ t.kind = "feed" /\ t.left = 0
  /\ timers' = (timers \ {t}) \cup {[t EXCEPT !.left = t.delay, !.since = 0]}
  /\ call' = [op |-> "fire", gap |-> t.since, delay |-> t.delay]
  /\ npush' = npush + 1
  /\ UNCHANGED <<lots, ret, USE_MOCK, domVars, debounceTimer, mockInterval, taskVars,
                 histVars>>

NextFeed ==
  \/ \E delay \in FeedDelays : FeedSubscribe(delay)
  \/ FeedTick
  \/ \E t \in timers : FeedFireAt(t)

SpecFeed == InitFeed /\ [][NextFeed]_vars

\* C17: every gap between two firings of a feed is in [2500 ms, 4500 ms), and
\* at each firing the timer is armed again with a delay drawn at that firing
\* (a new value of 2500 + Math.random() * 2000), not with the one delay of
\* the subscription.
C17_FeedRearmsWithNewDraw ==
  /\ [](call.op = "fire" => (2500 <= call.gap /\ call.gap < 4500))
  /\ [][\A t \in timers : FeedFireAt(t) =>
          \E delay \in FeedDelays :
             /\ ret' = Append(ret, delay)
             /\ \E u \in timers' : u.id = t.id /\ u.left = delay
      ]_vars

\* --------------------------------- records of the service entering the view
\* values of capacity, available and available_spots a record of the service
\* may carry; Absent stands for a field the record does not have
WireCapacities == {0, 200}
WireAvailable == {Absent} \cup {[given |-> TRUE, v |-> n] : n \in {-1, 0, 35, 200, 201}}
WireAvailableSpots == {Absent} \cup {[given |-> TRUE, v |-> n] : n \in {-5, 35, 250}}

\* a record of the service with these values
wireRecord(capacity, available, available_spots) ==
  LET base == [id |-> "PARK001", name |-> "Flinders St Car Park",
               lat |-> -37818300, lng |-> 144967100, capacity |-> capacity]
      a == IF available.given THEN [available |-> available.v] @@ base ELSE base
  IN IF available_spots.given THEN [available_spots |-> available_spots.v] @@ a ELSE a

WireRecords ==
  { wireRecord(c, a, s) : c \in WireCapacities, a \in WireAvailable, s \in WireAvailableSpots }

\* the lot a marker or a card holds when it is clicked
PopupLots == { mapBackendParking(serverData[1]), lotsFixture[1] }

\* server.js, GET /api/v1/parking/:id: the record of that id, or 404 with
\* the body { error: 'Not found' }
parkingByIdRoute(id) ==
  IF \E i \in DOMAIN serverData : serverData[i].id = id
  THEN Http(TRUE, "object", <<serverData[CHOOSE i \in DOMAIN serverData : serverData[i].id = id]>>)
  ELSE Http(FALSE, "errobj", <<>>)

\* answers to the fetch of /parking/:id in showLotPopup
PopupResponses ==
  {NetErr, Http(FALSE, "errobj", <<>>), Http(TRUE, "html", <<>>)}
  \cup {Http(TRUE, "object", <<w>>) : w \in WireRecords}
  \cup {parkingByIdRoute(p.id) : p \in PopupLots}

\* showLotPopup(p): the p the popup is filled from.  Without the test of
\* r.ok the body of an error answer would be normalized and spread over p,
\* available_spots becoming 0.
showLotPopup_noOkTest(p, http) ==
  IF http.kind = "neterr" \/ http.t = "html" THEN p
  ELSE IF http.t # "object" THEN [available_spots |-> 0] @@ p
  ELSE mapBackendParking(http.items[1]) @@ p
showLotPopup(p, http) ==
  IF http.kind = "neterr" \/ ~http.ok \/ http.t # "object" THEN p
  ELSE mapBackendParking(http.items[1]) @@ p

MapBackendParkingCall(w) ==
  /\ call = NoCall
  /\ call' = [op |-> "mapBackendParking", p |-> w]
  /\ ret' = <<mapBackendParking(w)>>
  /\ UNCHANGED <<lots, npush, uiVars>>

ShowLotPopupCall(p, http) ==
  /\ call = NoCall
  /\ call' = [op |-> "showLotPopup", p |-> p, http |-> http]
  /\ ret' = <<showLotPopup(p, http)>>
  /\ UNCHANGED <<lots, npush, uiVars>>

NextWire ==
  \/ \E w \in WireRecords : MapBackendParkingCall(w)
  \/ \E p \in PopupLots, http \in PopupResponses : ShowLotPopupCall(p, http)

SpecWire == InitApi /\ [][NextWire]_vars

\* C19: every lot that mapBackendParking returns, and every lot showLotPopup
\* fills its popup from, has 0 <= available_spots <= capacity, whatever the
\* values of the record of the service.
C19_DisplayedInRange ==
  call.op \in {"mapBackendParking", "showLotPopup"} => \A k \in DOMAIN ret : InRange(ret[k])

\* C24: when the request of showLotPopup fails, or is answered with a status
\* that is not a success (the service answers 404 for an id it does not
\* have), the popup is filled from the lot as it was known: every field is
\* the one of the p showLotPopup was called with.
C24_MissingLotKeepsFields ==
  call.op = "showLotPopup" =>
    /\ (call.http.kind = "neterr" \/ ~call.http.ok) => ret[1] = call.p
    /\ (/\ call.http = parkingByIdRoute(call.p.id)
        /\ \A i \in DOMAIN serverData : serverData[i].id # call.p.id) => ret[1] = call.p

\* the popup of a lot of the mock, which the service does not have
C24_Witness ==
  /\ call.op = "showLotPopup" /\ call.p.id = "CP-101"
  /\ call.http = parkingByIdRoute("CP-101") /\ ~call.http.ok
  /\ ret[1] = lotsFixture[1]

\* ------------------------------------------ the store and the page's objects
\* Mock mode, where the awaited calls settle within the task that made them:
\* each handler below is one step.  A returned record is an object; what is
\* kept of its identity is the place in `lots` of the store object it is, or
\* 0 when it is an object of its own.

\* ({...p}) for the store object at place i: a new object
spread_same(i) == i
spread(i) == 0

\* the objects mock.parkingNear and mock.pushUpdates return, by identity
refsOf(store, items) == [k \in DOMAIN items |-> spread(findIndex(store, items[k].id) + 1)]

\* for (const it of items) it.distance_m = distanceMeters(place, it): the
\* store after these writes
writeDistance(store, refs, place) ==
  [i \in DOMAIN store |->
     IF \E k \in DOMAIN refs : refs[k] = i
     THEN [distance_m |-> distanceMeters(place, store[i])] @@ store[i]
     ELSE store[i]]

\* answers to the fetch of /parking/:id the popup is tried with
HeapPopupResponses ==
  {NetErr, Http(TRUE, "object", <<wireRecord(200, [given |-> TRUE, v |-> 201], Absent)>>)}

\* autoLoadBootstrap has armed setTimeout(loadInitialCarParks, 300)
InitHeap ==
  /\ lots = lotsFixture
  /\ call = NoCall /\ ret = <<>> /\ npush = 0
  /\ USE_MOCK = TRUE
  /\ searchBox = "" /\ sugShown = FALSE /\ sugItems = <<>>
  /\ currentDestination = NoPlace
  /\ status = [kind |-> "initial", n |-> 0, name |-> ""]
  /\ markers = <<>> /\ cards = <<>> /\ lastParkingItems = <<>>
  /\ mapCenter = [lat |-> MAP_DEFAULT.lat, lng |-> MAP_DEFAULT.lng]
  /\ envCards = <<>>
  /\ timers = {[id |-> 1, kind |-> "initial", q |-> "", nr |-> 0, left |-> 300]}
  /\ debounceTimer = 0 /\ mockInterval = 0
  /\ micro = <<>> /\ net = <<>>
  /\ resolveSeq = 0 /\ hist = <<>>
  /\ lastInput = "" /\ sinceInput = 0 /\ ninput = 0 /\ nenter = 0

\* lines 143-151 of chooseDestination and 410-421 of loadInitialCarParks:
\* fetch from the mock, enrich, cache, draw
drawLots(op, centre, radius) ==
  LET fetched == parkingNear(lots, centre, radius)
      refs == refsOf(lots, fetched)
      items == enrich(centre, fetched)
  IN /\ lots' = writeDistance(lots, refs, centre)
     /\ call' = [op |-> op, refs |-> refs]
     /\ ret' = items
     /\ lastParkingItems' = items
     /\ markers' = upsertAll(clearMarkers(markers), items)
     /\ cards' = clearCards(cards) \o [k \in DOMAIN items |-> lotCard(items[k])]
     /\ envCards' = renderEnvSuggestions(items)
     /\ mapCenter' = fitBounds(items)

\* chooseDestination(place), from its call to its end
HeapChooseDestination(place) ==
  /\ resolveSeq < MaxResolves
  /\ drawLots("chooseDestination", [lat |-> place.lat, lng |-> place.lng], 900)
  /\ resolveSeq' = resolveSeq + 1
  /\ searchBox' = place.name
  /\ currentDestination' = place
  /\ status' = [kind |-> "showing", n |-> Len(ret'), name |-> place.name]
  /\ LET sub == subscribeRealtime(TRUE, timers, mockInterval, {}, resolveSeq + 1)
     IN timers' = sub.timers /\ mockInterval' = sub.mockInterval
  /\ UNCHANGED <<npush, USE_MOCK, sugShown, sugItems, debounceTimer, taskVars, hist,
                 lastInput, sinceInput, ninput, nenter>>

\* the timeout of autoLoadBootstrap fires: loadInitialCarParks()
HeapLoadInitialCarParks(t) ==
  /\ t \in timers /\ t.kind = "initial"
  /\ timers' = timers \ {t}
  /\ drawLots("loadInitialCarParks", MAP_DEFAULT, 1200)
  /\ status' = [kind |-> "initial load", n |-> Len(ret'), name |-> ""]
  /\ UNCHANGED <<npush, USE_MOCK, searchBox, sugShown, sugItems, currentDestination,
                 debounceTimer, mockInterval, taskVars, histVars>>

\* a click on the marker k: showLotPopup(p), the fetch ending in http
HeapShowLotPopup(k, http) ==
  /\ k \in DOMAIN markers
  /\ call.op # "showLotPopup"
  /\ call' = [op |-> "showLotPopup", refs |-> <<>>]
  /\ ret' = <<showLotPopup(markers[k].clickP, http)>>
  /\ UNCHANGED <<lots, npush, uiVars>>

\* the feed timer fires, for at most n firings in a behaviour
HeapFeedFireUpTo(t, n) ==
  /\ npush < n
  /\ t \in timers /\ t.kind = "feed"
  /\ LET ids == markerKeys(markers)
     IN \E draws \in [1..nDraws(lots, ids) -> FeedDraws] :
          LET r == pushUpdates(lots, ids, draws)
          IN /\ lots' = r.lots
             /\ ret' = r.changes
             /\ call' = [op |-> "pushUpdates", refs |-> refsOf(lots, r.changes)]
             /\ markers' = mergeMarkers(markers, r.changes)
             /\ cards' = mergeCards(cards, r.changes)
  /\ npush' = npush + 1
  /\ UNCHANGED <<USE_MOCK, searchBox, sugShown, sugItems, currentDestination, status,
                 lastParkingItems, mapCenter, envCards, timerVars, taskVars, histVars>>

HeapFeedFire(t) == HeapFeedFireUpTo(t, MaxFire)

NextHeap ==
  \/ \E i \in DOMAIN places : HeapChooseDestination(places[i])
  \/ \E t \in timers : HeapLoadInitialCarParks(t)
  \/ \E k \in DOMAIN markers, http \in HeapPopupResponses : HeapShowLotPopup(k, http)
  \/ \E t \in timers : HeapFeedFire(t)

SpecHeap == InitHeap /\ [][NextHeap]_vars

\* C20: the records mock.parkingNear and mock.pushUpdates return are objects
\* of their own, and no step but a pushUpdates call changes the store:
\* chooseDestination, loadInitialCarParks and showLotPopup leave every field
\* of every lot of the store as it was.
C20_StoreWrittenByPushUpdatesOnly ==
  /\ [](call.op # "none" => \A k \in DOMAIN call.refs : call.refs[k] = 0)
  /\ [][lots' # lots => call'.op = "pushUpdates"]_vars
  /\ [][call'.op \in {"chooseDestination", "loadInitialCarParks", "showLotPopup"}
          => lots' = lots]_vars

\* the store has been updated, a destination chosen and the initial load
\* done, and a popup shows a detail refresh
C20_Witness ==
  /\ call.op = "showLotPopup" /\ ret[1].available_spots = 201
  /\ npush >= 1 /\ resolveSeq >= 1 /\ lots # lotsFixture
  /\ \A t \in timers : t.kind # "initial"
  /\ \E k \in DOMAIN lastParkingItems : "distance_m" \in DOMAIN lastParkingItems[k]

\* ----------------------------- mapBackendParking on values of every type
\* values the fields available_spots and available are tried with
WireValues == {Undefined, Null, Num(0), Num(-1), Num(35), JsString(35), JsString(0)}

\* mapBackendParking(p) for p with the fields of base and the two values
NormalizeCall(base, available_spots, available) ==
  /\ call = NoCall
  /\ call' = [op |-> "mapBackendParking", p |-> base,
              available_spots |-> available_spots, available |-> available]
  /\ ret' = <<[mapBackendParking(base) EXCEPT
                 !.available_spots = availableSpotsOf(available_spots, available)]>>
  /\ UNCHANGED <<lots, npush, uiVars>>

NextNorm ==
  \E k \in DOMAIN serverData, a \in WireValues, b \in WireValues :
    NormalizeCall(serverData[k], a, b)

SpecNorm == InitApi /\ [][NextNorm]_vars

\* the fields mapBackendParking copies are those of the record
copiesFields ==
  /\ ret[1].id = call.p.id /\ ret[1].name = call.p.name
  /\ ret[1].lat = call.p.lat /\ ret[1].lng = call.p.lng
  /\ ret[1].capacity = call.p.capacity

\* C23 as stated: available_spots is the record's available_spots when the
\* record has one that is not null, else its available when it has one that
\* is not null, else 0; id, name, lat, lng and capacity are copied.
C23_Normalization ==
  call.op = "mapBackendParking" =>
    /\ copiesFields
    /\ ret[1].available_spots =
         IF call.available_spots.kind \notin {"undefined", "null"} THEN call.available_spots
         ELSE IF call.available.kind \notin {"undefined", "null"} THEN call.available
         ELSE Num(0)

\* C23, amended: available_spots is the record's available_spots when that
\* is a number, else its available when it has one that is not null, else 0;
\* id, name, lat, lng and capacity are copied.
C23_NormalizationOfNumbers ==
  call.op = "mapBackendParking" =>
    /\ copiesFields
    /\ ret[1].available_spots =
         IF call.available_spots.kind = "int" THEN call.available_spots
         ELSE IF call.available.kind \notin {"undefined", "null"} THEN call.available
         ELSE Num(0)

\* a record whose available_spots is a string and whose available is a number
C23_Witness ==
  /\ call.op = "mapBackendParking"
  /\ call.available_spots = JsString(35) /\ call.available = Num(0)
  /\ ret[1].available_spots = Num(0) /\ ret[1].id = "PARK003"

\* C25: once a destination has been chosen, the snapshot on display is the
\* one of that destination, also after loadInitialCarParks has run: the
\* markers, the cards and the cached list are the lots the store gives for
\* the current destination.
C25_InitialLoadKeepsChoice ==
  resolveSeq >= 1 =>
    LET chosen == parkingNear(lots, currentDestination, 900)
    IN Shows([k \in DOMAIN chosen |-> chosen[k].id])

\* C27: the popup showLotPopup opens for a lot on display shows the
\* available_spots the badge of the lot's card shows, which is the one the
\* feed has merged last.
C27_PopupShowsMergedValue ==
  call.op = "showLotPopup" =>
    \A k \in DOMAIN cards :
      cards[k].p.id = ret[1].id => ret[1].available_spots = cards[k].badge.available_spots

\* ------------------------------------------- the marker icons under the feed
\* One destination is chosen, then the feed fires.
MaxIconFires == 3   \* firings of the feed in one behaviour

NextIcon ==
  \/ \E i \in DOMAIN places : resolveSeq = 0 /\ HeapChooseDestination(places[i])
  \/ \E t \in timers : HeapFeedFireUpTo(t, MaxIconFires)

SpecIcon == InitHeap /\ [][NextIcon]_vars

\* C28: the icon class of every marker is the one of the availability its
\* popup and its card show: full when no spot is free, low when the free
\* spots are at most a fifth of max(1, capacity), available otherwise.
C28_IconAgreesWithAvailability ==
  LET classOf(a, c) == IF a <= 0 THEN "full"
                       ELSE IF 5 * a <= Max(1, c) THEN "low" ELSE "available"
  IN \A k \in DOMAIN markers :
       /\ markers[k].icon = classOf(markers[k].popup.available_spots, markers[k].popup.capacity)
       /\ markers[k].icon = classOf(cards[k].badge.available_spots, cards[k].badge.capacity)

====
